---- MODULE Spec2Model ----
(***************************************************************************)
(* Model of app.py, the Postgres web SQL client: the POST handler          *)
(* (post_handler), the helpers it calls (_connect, _get_tables,            *)
(* _run_select, _run_statement) and the part of _render_page that builds   *)
(* the per-row delete snapshot.                                            *)
(*                                                                         *)
(* Text is modelled as a sequence of one-character strings, so that        *)
(* strip/split/lower/startswith/replace are computed and not assumed.      *)
(* Text produced by an f-string is the concatenation of its literal        *)
(* fragments (kept as single elements) and of the interpolated texts.      *)
(* The database holds one base table, public.users, whose two columns are  *)
(* of type text; a cell is NULL or a text.                                 *)
(***************************************************************************)
EXTENDS Integers, Sequences, FiniteSets, TLC

\* ------------------------------------------------------------------ bounds
\* The largest number of rows the table public.users starts with.
MaxRows == 2

\* The longest schema, table or column name drawn for the functions of names.
MaxNameLen == 2

\* The largest number of query parameters of a connection URL.
MaxParams == 2

\* ----------------------------------------------------------- text helpers
Whitespace == {" ", "\t", "\n"}

UpperAlpha ==
  <<"A","B","C","D","E","F","G","H","I","J","K","L","M",
    "N","O","P","Q","R","S","T","U","V","W","X","Y","Z">>

LowerAlpha ==
  <<"a","b","c","d","e","f","g","h","i","j","k","l","m",
    "n","o","p","q","r","s","t","u","v","w","x","y","z">>

\* str.lower() on one character
LowerChar(c) ==
  IF \E i \in 1..26 : UpperAlpha[i] = c
    THEN LowerAlpha[CHOOSE i \in 1..26 : UpperAlpha[i] = c]
    ELSE c

\* str.lower()
Lower(s) == [i \in 1..Len(s) |-> LowerChar(s[i])]

\* str.strip(): drop the leading and the trailing whitespace
RECURSIVE LStrip(_)
LStrip(s) ==
  IF s # <<>> /\ Head(s) \in Whitespace THEN LStrip(Tail(s)) ELSE s

RECURSIVE RStrip(_)
RStrip(s) ==
  IF s # <<>> /\ s[Len(s)] \in Whitespace
    THEN RStrip(SubSeq(s, 1, Len(s) - 1))
    ELSE s

Strip(s) == RStrip(LStrip(s))

\* the leading run of non-whitespace characters of s
RECURSIVE TakeToken(_)
TakeToken(s) ==
  IF s = <<>> \/ Head(s) \in Whitespace
    THEN <<>>
    ELSE <<Head(s)>> \o TakeToken(Tail(s))

\* sql.split(None, 1)[0] if sql.split() else "": the first whitespace-delimited
\* token, "" when there is none
FirstToken(s) == TakeToken(LStrip(s))

\* str.startswith(prefix)
StartsWith(s, prefix) ==
  /\ Len(s) >= Len(prefix)
  /\ SubSeq(s, 1, Len(prefix)) = prefix

\* position of the first "." of s, 0 when there is none
RECURSIVE FirstDot(_, _)
FirstDot(s, i) ==
  IF i > Len(s) THEN 0
  ELSE IF s[i] = "." THEN i
  ELSE FirstDot(s, i + 1)

\* s.replace('"', '""')
RECURSIVE DoubleQuotes(_)
DoubleQuotes(s) ==
  IF s = <<>> THEN <<>>
  ELSE IF Head(s) = "\"" THEN <<"\"", "\"">> \o DoubleQuotes(Tail(s))
  ELSE <<Head(s)>> \o DoubleQuotes(Tail(s))

\* str(n) for a natural number n, as decimal digits
DigitChars == <<"0","1","2","3","4","5","6","7","8","9">>

RECURSIVE IntStr(_)
IntStr(n) ==
  IF n < 10 THEN <<DigitChars[n + 1]>>
  ELSE IntStr(n \div 10) \o <<DigitChars[(n % 10) + 1]>>

\* " AND ".join(parts)
RECURSIVE JoinAnd(_)
JoinAnd(parts) ==
  IF parts = <<>> THEN <<>>
  ELSE IF Len(parts) = 1 THEN parts[1]
  ELSE parts[1] \o <<" AND ">> \o JoinAnd(Tail(parts))

\* the first n elements of s
Take(s, n) == SubSeq(s, 1, IF Len(s) < n THEN Len(s) ELSE n)

\* ------------------------------------------------------------ the database
Public == <<"p","u","b","l","i","c">>

Users == <<"u","s","e","r","s">>

Orders == <<"o","r","d","e","r","s">>

ColId == <<"i","d">>

ColName == <<"n","a","m","e">>

\* the columns of public.users, in the order a fetched record lists them
TableCols == <<ColId, ColName>>

\* what _get_tables returns: the base tables outside the system schemas
Catalog == << <<Public, Users>> >>

\* a cell: SQL NULL (None in Python) or a text (str)
Null == [isnull |-> TRUE, text |-> ""]

Txt(t) == [isnull |-> FALSE, text |-> t]

CellValues == {Null, Txt(""), Txt("a")}

TableRows == [1..Len(TableCols) -> CellValues]

\* LIMIT of the browse query
BrowseLimit == 200

\* str(val) of a cell that is not None
PyStr(v) == v.text

\* col::text = $n under SQL's three-valued logic: a NULL column is never equal
PgTextEq(v, param) == ~v.isnull /\ v.text = param

\* ----------------------------------------------------- identifiers and SQL
\* the identifier wrapped in quotes without doubling the quotes inside it
QuoteIdentNoEscape(part) == <<"\"">> \o part \o <<"\"">>

\* q + part.replace(q, q+q) + q
QuoteIdent(part) == <<"\"">> \o DoubleQuotes(part) \o <<"\"">>

\* ident = "schema"."name"
QualifiedIdent(schema, name) == QuoteIdent(schema) \o <<".">> \o QuoteIdent(name)

\* the browse query without its LIMIT
BrowseSqlNoLimit(schema, name) ==
  <<"SELECT * FROM ">> \o QualifiedIdent(schema, name) \o <<";">>

\* sql = f"SELECT * FROM {ident} LIMIT 200;"
BrowseSql(schema, name) ==
  <<"SELECT * FROM ">> \o QualifiedIdent(schema, name)
    \o <<" LIMIT ">> \o IntStr(BrowseLimit) \o <<";">>

\* the conditions built without idx += 1: every one compares with $1
ConditionsSameParam(row_data) ==
  [i \in 1..Len(row_data) |->
     <<"\"">> \o DoubleQuotes(row_data[i][1]) \o <<"\"", "::text = $">> \o IntStr(1)]

\* conditions: one f'"{safe_col}"::text = ${idx}' per item of row_data
Conditions(row_data) ==
  [i \in 1..Len(row_data) |->
     <<"\"">> \o DoubleQuotes(row_data[i][1]) \o <<"\"", "::text = $">> \o IntStr(i)]

\* values: str(val) per item of row_data
Values(row_data) == [i \in 1..Len(row_data) |-> row_data[i][2]]

\* where_clause = " AND ".join(conditions) if conditions else "TRUE"
WhereClause(conditions) ==
  IF conditions # <<>> THEN JoinAnd(conditions) ELSE <<"TRUE">>

\* delete_sql = f"DELETE FROM {ident} WHERE {where_clause} RETURNING *"
DeleteSql(schema, name, row_data) ==
  <<"DELETE FROM ">> \o QualifiedIdent(schema, name) \o <<" WHERE ">>
    \o WhereClause(Conditions(row_data)) \o <<" RETURNING *">>

CatalogSql ==
  <<"SELECT table_schema, table_name FROM information_schema.tables WHERE table_type = 'BASE TABLE' AND table_schema NOT IN ('pg_catalog', 'information_schema') ORDER BY table_schema, table_name">>

\* table_name.split(".", 1) if "." in table_name else ("public", table_name)
ParseTableName(table_name) ==
  LET d == FirstDot(table_name, 1) IN
  IF d > 0
    THEN <<SubSeq(table_name, 1, d - 1), SubSeq(table_name, d + 1, Len(table_name))>>
    ELSE <<Public, table_name>>

\* the whitelist check comparing the table name alone
InTablesByName(pair, tbls) == \E i \in 1..Len(tbls) : tbls[i][2] = pair[2]

\* the whitelist check left out
InTablesAny(pair, tbls) == TRUE

\* (schema, name) in tables
InTables(pair, tbls) == \E i \in 1..Len(tbls) : tbls[i] = pair

\* ------------------------------------------------------------- the engine
\* The engine reads a statement as the handler wrote it: it unquotes the
\* identifiers, and takes each condition "col"::text = $k as the comparison of
\* the column col with the k-th bound value.

\* the text of a quoted identifier: the delimiters dropped, "" read as "
RECURSIVE Undouble(_)
Undouble(s) ==
  IF s = <<>> THEN <<>>
  ELSE IF Head(s) = "\"" /\ Len(s) >= 2 /\ s[2] = "\""
    THEN <<"\"">> \o Undouble(Tail(Tail(s)))
  ELSE <<Head(s)>> \o Undouble(Tail(s))

UnquoteIdent(quoted) == Undouble(SubSeq(quoted, 2, Len(quoted) - 1))

\* the value of a string of decimal digits
DigitValue(c) == (CHOOSE i \in 1..10 : DigitChars[i] = c) - 1

RECURSIVE StrInt(_)
StrInt(digits) ==
  IF digits = <<>> THEN 0
  ELSE 10 * StrInt(SubSeq(digits, 1, Len(digits) - 1)) + DigitValue(digits[Len(digits)])

\* where the cast-and-compare part of a condition starts
CastAt(cond) == CHOOSE j \in 1..Len(cond) : cond[j] = "::text = $"

\* the column a condition names
CondCol(cond) == UnquoteIdent(SubSeq(cond, 1, CastAt(cond) - 1))

\* the number of the bound value a condition compares with
CondParam(cond) == StrInt(SubSeq(cond, CastAt(cond) + 1, Len(cond)))

\* index of a column of public.users
ColIndex(col) == CHOOSE i \in 1..Len(TableCols) : TableCols[i] = col

\* the statement names public.users, columns it has and values that are bound
Executable(qschema, qname, conditions, values) ==
  /\ <<UnquoteIdent(qschema), UnquoteIdent(qname)>> = <<Public, Users>>
  /\ \A i \in 1..Len(conditions) :
       /\ \E j \in 1..Len(TableCols) : TableCols[j] = CondCol(conditions[i])
       /\ CondParam(conditions[i]) \in 1..Len(values)

\* the WHERE clause of the generated DELETE on one row: every condition holds
\* (no condition at all is WHERE TRUE)
RowMatches(r, conditions, values) ==
  \A i \in 1..Len(conditions) :
    PgTextEq(r[ColIndex(CondCol(conditions[i]))], values[CondParam(conditions[i])])

\* the rows DELETE ... RETURNING * returns
DeletedRows(content, conditions, values) ==
  SelectSeq(content, LAMBDA r : RowMatches(r, conditions, values))

\* the rows the DELETE leaves in the table
RemainingRows(content, conditions, values) ==
  SelectSeq(content, LAMBDA r : ~RowMatches(r, conditions, values))

\* the records conn.fetch returns for the browse query
BrowseFetch(content) == [cols |-> TableCols, rows |-> Take(content, BrowseLimit)]

\* _run_select: columns from the first record, none when there is no record
RunSelect(fetched) ==
  IF fetched.rows = <<>>
    THEN [columns |-> <<>>, rows |-> <<>>]
    ELSE [columns |-> fetched.cols, rows |-> fetched.rows]

\* what the engine may return for a caller's row-returning statement
CallerFetches ==
  { [cols |-> <<>>, rows |-> <<>>],
    [cols |-> << <<"x">> >>, rows |-> << <<Txt("1")>> >>] }

\* the status strings the engine may return for a caller's statement
EngineStatuses == { <<"UPDATE 1">>, <<"VACUUM">> }

\* str(ex) of an exception raised by the driver
EngineError == <<"engine error">>

ConnectError == <<"connection refused">>

JsonError == <<"Expecting value: line 1 column 1 (char 0)">>

AttributeError == <<"'list' object has no attribute 'items'">>

\* -------------------------------------------------------------- rendering
\* row_dict[key] = text: an existing key keeps its place and takes the new text
RECURSIVE DictSet(_, _, _)
DictSet(d, key, text) ==
  IF d = <<>> THEN << <<key, text>> >>
  ELSE IF Head(d)[1] = key THEN << <<key, text>> >> \o Tail(d)
  ELSE <<Head(d)>> \o DictSet(Tail(d), key, text)

\* row_dict of _render_page: for col, val in zip(columns, r):
\*     row_dict[str(col)] = "" if val is None else str(val)
\* str(val) without the test for None
SnapshotTextNone(v) == IF v.isnull THEN "None" ELSE PyStr(v)

\* "" if val is None else str(val)
SnapshotText(v) == IF v.isnull THEN "" ELSE PyStr(v)

RECURSIVE RowDictFrom(_, _, _, _)
RowDictFrom(d, cols, r, i) ==
  IF i > Len(cols) \/ i > Len(r) THEN d
  ELSE RowDictFrom(DictSet(d, cols[i], SnapshotText(r[i])), cols, r, i + 1)

RowDict(cols, r) == RowDictFrom(<<>>, cols, r, 1)

\* what _render_page puts on the page: the error, else the message; the result
\* table when there are columns and rows; one delete snapshot per row when the
\* table is deletable
RenderPage(tbls, cols, rws, msg, err, deletable) ==
  LET shown == cols # <<>> /\ rws # <<>> IN
  [ tables    |-> tbls,
    error     |-> err,
    message   |-> IF err # <<>> THEN <<>> ELSE msg,
    columns   |-> IF shown THEN cols ELSE <<>>,
    rows      |-> IF shown THEN rws ELSE <<>>,
    snapshots |-> IF shown /\ deletable # <<>>
                    THEN [i \in 1..Len(rws) |-> RowDict(cols, rws[i])]
                    ELSE <<>> ]

\* ------------------------------------------------------------ the requests
\* row_json as the form carries it: nothing, text that is not JSON, the JSON
\* null, a JSON array, or a JSON object of column texts
NoRowJson == [kind |-> "empty", obj |-> <<>>]

MalformedRowJson == [kind |-> "malformed", obj |-> <<>>]

NullRowJson == [kind |-> "null", obj |-> <<>>]

ArrayRowJson == [kind |-> "array", obj |-> <<>>]

ObjectRowJson(d) == [kind |-> "object", obj |-> d]

SnapshotTexts == {"", "a"}

\* the JSON objects a request may carry: over no column, one column or both
SnapshotObjects ==
  {<<>>}
    \cup { << <<c, t>> >> : c \in {ColId, ColName}, t \in SnapshotTexts }
    \cup { << <<ColId, t1>>, <<ColName, t2>> >> : t1 \in SnapshotTexts, t2 \in SnapshotTexts }

RowJsons ==
  {NoRowJson, MalformedRowJson, NullRowJson, ArrayRowJson}
    \cup {ObjectRowJson(d) : d \in SnapshotObjects}

\* a decoder that takes text that is not JSON for the JSON null
JsonLoadsLenient(row_json) ==
  [ raised |-> FALSE,
    isdict |-> row_json.kind = "object",
    value  |-> row_json.obj ]

\* json.loads(row_json): raises on text that is not JSON
JsonLoads(row_json) ==
  [ raised |-> row_json.kind = "malformed",
    isdict |-> row_json.kind = "object",
    value  |-> row_json.obj ]

\* the test "row_data is not None" in place of the truth value
TruthyNotNone(row_json) == row_json.kind \in {"array", "object"}

\* truth value of a decoded row_data: None, the JSON null and an empty object
\* are false, a JSON array with an element is true
Truthy(row_json) ==
  \/ row_json.kind = "array"
  \/ row_json.kind = "object" /\ row_json.obj # <<>>

TableNames ==
  { <<>>, Users, Public \o <<".">> \o Users, Public \o <<".">> \o Orders,
    Orders \o <<".">> \o Users }

SqlTexts ==
  { <<>>,
    <<" ", "\t">>,
    <<"s","e","l","e","c","t"," ","1">>,
    <<" ","S","E","L","E","C","T","\n","1"," ">>,
    <<"s","e","l","e","c","t","s">>,
    <<" ","W","i","t","h"," ","t">>,
    <<"w","i","t","h","d","r","a","w">>,
    <<"w","i","t"," ","h">>,
    <<"v","a","c","u","u","m">>,
    <<"x"," ","s","e","l","e","c","t">> }

\* the form fields the handler reads for each action; the fields an action does
\* not read are left at their defaults
Requests ==
  { [action |-> "connect", table_name |-> <<>>, delete_table_name |-> <<>>,
     row_json |-> NoRowJson, sql_text |-> <<>>] }
    \cup { [action |-> "view_table", table_name |-> t, delete_table_name |-> <<>>,
            row_json |-> NoRowJson, sql_text |-> <<>>] : t \in TableNames }
    \cup { [action |-> "delete_row", table_name |-> <<>>, delete_table_name |-> t,
            row_json |-> j, sql_text |-> <<>>] : t \in TableNames, j \in RowJsons }
    \cup { [action |-> "run_sql", table_name |-> <<>>, delete_table_name |-> <<>>,
            row_json |-> NoRowJson, sql_text |-> x] : x \in SqlTexts }

\* ---------------------------------------------------------------- the state
VARIABLES
  db,               \* the rows of public.users in the database
  pc,               \* where the handler stands
  req,              \* the form fields of the request being handled
  connOpen,         \* the request's connection is open
  closeCount,       \* how many times the request closed its connection
  tables,           \* the handler's locals ...
  selected_table,
  columns,
  rows,
  message,
  error,
  deletable_table,
  log,              \* what the request did on the driver, in order
  response,         \* what _render_page was given to show
  dbAtStart,        \* the table as it was when the request arrived
  rerun,            \* the request repeats the delete request that preceded it
  probe             \* a function of the program applied to drawn inputs, with its results

vars ==
  <<db, pc, req, connOpen, closeCount, tables, selected_table, columns, rows,
    message, error, deletable_table, log, response, dbAtStart, rerun, probe>>

\* one call on the driver: asyncpg.connect, conn.fetch, conn.execute, conn.close
Event(kind, sql, args, ok, status, nrows) ==
  [kind |-> kind, sql |-> sql, args |-> args, ok |-> ok, status |-> status, nrows |-> nrows]

IsDeleteEvent(e) == e.kind = "fetch" /\ e.sql # <<>> /\ e.sql[1] = "DELETE FROM "

IsBrowseEvent(e) == e.kind = "fetch" /\ e.sql # <<>> /\ e.sql[1] = "SELECT * FROM "

NoFault == \A i \in 1..Len(log) : log[i].ok

NoResponse == RenderPage(<<>>, <<>>, <<>>, <<>>, <<>>, <<>>)

NoRequest ==
  [action |-> "connect", table_name |-> <<>>, delete_table_name |-> <<>>,
   row_json |-> NoRowJson, sql_text |-> <<>>]

\* no function is being probed
NoProbe == [stage |-> "none"]

Init ==
  /\ db \in UNION {[1..k -> TableRows] : k \in 0..MaxRows}
  /\ pc = "idle"
  /\ req = NoRequest
  /\ connOpen = FALSE
  /\ closeCount = 0
  /\ tables = <<>>
  /\ selected_table = <<>>
  /\ columns = <<>>
  /\ rows = <<>>
  /\ message = <<>>
  /\ error = <<>>
  /\ deletable_table = <<>>
  /\ log = <<>>
  /\ response = NoResponse
  /\ dbAtStart = db
  /\ rerun = FALSE
  /\ probe = NoProbe

\* a POST arrives: post_handler starts with its locals at their defaults
Submit(r) ==
  /\ pc \in {"idle", "done"}
  /\ pc' = "connect"
  /\ req' = r
  /\ connOpen' = FALSE
  /\ closeCount' = 0
  /\ tables' = <<>>
  /\ selected_table' = <<>>
  /\ columns' = <<>>
  /\ rows' = <<>>
  /\ message' = <<>>
  /\ error' = <<>>
  /\ deletable_table' = <<>>
  /\ log' = <<>>
  /\ response' = NoResponse
  /\ dbAtStart' = db
  /\ rerun' = FALSE
  /\ UNCHANGED <<db, probe>>

\* the same delete request is posted again right after a delete request in which
\* the generated DELETE ran and nothing failed
Resubmit ==
  /\ pc = "done"
  /\ req.action = "delete_row"
  /\ NoFault
  /\ \E i \in 1..Len(log) : IsDeleteEvent(log[i])
  /\ pc' = "connect"
  /\ connOpen' = FALSE
  /\ closeCount' = 0
  /\ tables' = <<>>
  /\ selected_table' = <<>>
  /\ columns' = <<>>
  /\ rows' = <<>>
  /\ message' = <<>>
  /\ error' = <<>>
  /\ deletable_table' = <<>>
  /\ log' = <<>>
  /\ response' = NoResponse
  /\ dbAtStart' = db
  /\ rerun' = TRUE
  /\ UNCHANGED <<db, req, probe>>

\* conn = await _connect(db_url, sslmode=sslmode); a failure renders the error
\* at once
Connect ==
  /\ pc = "connect"
  /\ \E ok \in BOOLEAN :
       /\ log' = Append(log, Event("connect", <<>>, <<>>, ok, <<>>, 0))
       /\ connOpen' = ok
       /\ IF ok
            THEN /\ pc' = "catalog"
                 /\ UNCHANGED error
            ELSE /\ pc' = "render"
                 /\ error' = <<"Cannot connect to database: ">> \o ConnectError
  /\ UNCHANGED <<db, req, closeCount, tables, selected_table, columns, rows, message,
                 deletable_table, response, dbAtStart, rerun, probe>>

\* the catalog loaded only when the request is a plain connect
GetTablesOnConnect ==
  /\ pc = "catalog"
  /\ IF req.action = "connect"
       THEN \E ok \in BOOLEAN :
              /\ log' = Append(log, Event("fetch", CatalogSql, <<>>, ok, <<>>,
                                          IF ok THEN Len(Catalog) ELSE 0))
              /\ IF ok
                   THEN /\ tables' = Catalog
                        /\ pc' = "dispatch"
                        /\ UNCHANGED error
                   ELSE /\ error' = EngineError
                        /\ pc' = "close"
                        /\ UNCHANGED tables
       ELSE /\ tables' = Catalog
            /\ pc' = "dispatch"
            /\ UNCHANGED <<error, log>>
  /\ UNCHANGED <<db, req, connOpen, closeCount, selected_table, columns, rows, message,
                 deletable_table, response, dbAtStart, rerun, probe>>

\* tables = await _get_tables(conn)
GetTables ==
  /\ pc = "catalog"
  /\ \E ok \in BOOLEAN :
       /\ log' = Append(log, Event("fetch", CatalogSql, <<>>, ok, <<>>,
                                   IF ok THEN Len(Catalog) ELSE 0))
       /\ IF ok
            THEN /\ tables' = Catalog
                 /\ pc' = "dispatch"
                 /\ UNCHANGED error
            ELSE /\ error' = EngineError
                 /\ pc' = "close"
                 /\ UNCHANGED tables
  /\ UNCHANGED <<db, req, connOpen, closeCount, selected_table, columns, rows, message,
                 deletable_table, response, dbAtStart, rerun, probe>>

\* the conditions of the if / elif chain that picks the operation
IsViewTable == req.action = "view_table" /\ req.table_name # <<>>

IsDeleteRow ==
  /\ ~IsViewTable
  /\ req.action = "delete_row"
  /\ req.delete_table_name # <<>>
  /\ req.row_json.kind # "empty"

IsRunSql ==
  /\ ~IsViewTable
  /\ ~IsDeleteRow
  /\ req.action = "run_sql"
  /\ Strip(req.sql_text) # <<>>

\* f"Table {schema}.{name} not found or not allowed."
NotAllowedError(schema, name) ==
  <<"Table ">> \o schema \o <<".">> \o name \o <<" not found or not allowed.">>

\* f"Table {schema}.{name} not found or not allowed for delete."
NotAllowedDeleteError(schema, name) ==
  <<"Table ">> \o schema \o <<".">> \o name \o <<" not found or not allowed for delete.">>

\* f"Deleted {deleted_count} row(s) from {schema}.{name}"
DeletedMessage(n, schema, name) ==
  <<"Deleted ">> \o IntStr(n) \o <<" row(s) from ">> \o schema \o <<".">> \o name

\* action == "view_table": the whitelist check, then the browse query
ViewTable ==
  /\ pc = "dispatch"
  /\ IsViewTable
  /\ selected_table' = req.table_name
  /\ pc' = "close"
  /\ LET pair == ParseTableName(req.table_name)
         schema == pair[1]
         name == pair[2]
     IN IF ~InTables(pair, tables)
          THEN /\ error' = NotAllowedError(schema, name)
               /\ UNCHANGED <<columns, rows, message, deletable_table, log>>
          ELSE \E up \in BOOLEAN :
                 LET ok == up /\ Executable(QuoteIdent(schema), QuoteIdent(name), <<>>, <<>>)
                     res == RunSelect(BrowseFetch(db))
                 IN
                 /\ log' = Append(log, Event("fetch", BrowseSql(schema, name), <<>>, ok, <<>>,
                                             IF ok THEN Len(res.rows) ELSE 0))
                 /\ IF ok
                      THEN /\ columns' = res.columns
                           /\ rows' = res.rows
                           /\ message' = <<"Showing first ">> \o IntStr(Len(res.rows))
                                           \o <<" rows from ">> \o schema \o <<".">> \o name
                           /\ deletable_table' = schema \o <<".">> \o name
                           /\ UNCHANGED error
                      ELSE /\ error' = EngineError
                           /\ UNCHANGED <<columns, rows, message, deletable_table>>
  /\ UNCHANGED <<db, req, connOpen, closeCount, tables, response, dbAtStart, rerun, probe>>

\* action == "delete_row", up to the generated DELETE: the whitelist check, the
\* decoding of row_json, and the DELETE when row_data is true
DeleteRow ==
  /\ pc = "dispatch"
  /\ IsDeleteRow
  /\ selected_table' = req.delete_table_name
  /\ LET pair == ParseTableName(req.delete_table_name)
         schema == pair[1]
         name == pair[2]
         decoded == JsonLoads(req.row_json)
     IN IF ~InTables(pair, tables)
          THEN /\ error' = NotAllowedDeleteError(schema, name)
               /\ pc' = "close"
               /\ UNCHANGED <<db, message, log>>
          ELSE IF decoded.raised
            THEN \* error = f"Invalid row data: {ex}"; row_data = None
                 /\ error' = <<"Invalid row data: ">> \o JsonError
                 /\ pc' = "reload"
                 /\ UNCHANGED <<db, message, log>>
          ELSE IF ~Truthy(req.row_json)
            THEN /\ pc' = "reload"
                 /\ UNCHANGED <<db, message, error, log>>
          ELSE IF ~decoded.isdict
            THEN \* row_data.items() raises, the handler's except takes it
                 /\ error' = AttributeError
                 /\ pc' = "close"
                 /\ UNCHANGED <<db, message, log>>
          ELSE \E ok \in BOOLEAN :
                 LET row_data == decoded.value
                     conditions == Conditions(row_data)
                     values == Values(row_data)
                     done == ok /\ Executable(QuoteIdent(schema), QuoteIdent(name),
                                              conditions, values)
                     deleted_rows == IF done THEN DeletedRows(db, conditions, values) ELSE <<>>
                     deleted_count == Len(deleted_rows)
                 IN /\ log' = Append(log, Event("fetch", DeleteSql(schema, name, row_data),
                                                values, done, <<>>, deleted_count))
                    /\ IF done
                         THEN /\ db' = RemainingRows(db, conditions, values)
                              /\ message' = DeletedMessage(deleted_count, schema, name)
                              /\ pc' = "reload"
                              /\ UNCHANGED error
                         ELSE /\ error' = EngineError
                              /\ pc' = "close"
                              /\ UNCHANGED <<db, message>>
  /\ UNCHANGED <<req, connOpen, closeCount, tables, columns, rows, deletable_table,
                 response, dbAtStart, rerun, probe>>

\* "Reload table after delete": the browse query of the delete branch
Reload ==
  /\ pc = "reload"
  /\ pc' = "close"
  /\ LET pair == ParseTableName(req.delete_table_name)
         schema == pair[1]
         name == pair[2]
     IN \E up \in BOOLEAN :
          LET ok == up /\ Executable(QuoteIdent(schema), QuoteIdent(name), <<>>, <<>>)
              res == RunSelect(BrowseFetch(db))
          IN
          /\ log' = Append(log, Event("fetch", BrowseSql(schema, name), <<>>, ok, <<>>,
                                      IF ok THEN Len(res.rows) ELSE 0))
          /\ IF ok
               THEN /\ columns' = res.columns
                    /\ rows' = res.rows
                    /\ deletable_table' = schema \o <<".">> \o name
                    /\ UNCHANGED error
               ELSE /\ error' = EngineError
                    /\ UNCHANGED <<columns, rows, deletable_table>>
  /\ UNCHANGED <<db, req, connOpen, closeCount, tables, selected_table, message,
                 response, dbAtStart, rerun, probe>>

\* the router comparing the whole first word with "with"
IsRowReturningExact(sql) ==
  LET first_word == Lower(FirstToken(sql)) IN
  \/ first_word = <<"s","e","l","e","c","t">>
  \/ first_word = <<"w","i","t","h">>

\* first_word == "select" or first_word.startswith("with"), first_word being the
\* lower-cased first token of the stripped text
IsRowReturning(sql) ==
  LET first_word == Lower(FirstToken(sql)) IN
  \/ first_word = <<"s","e","l","e","c","t">>
  \/ StartsWith(first_word, <<"w","i","t","h">>)

\* f"Statement OK: {status}"
StatementMessage(status) == <<"Statement OK: ">> \o status

\* action == "run_sql": _run_select or _run_statement on the stripped text
RunSql ==
  /\ pc = "dispatch"
  /\ IsRunSql
  /\ pc' = "close"
  /\ LET sql == Strip(req.sql_text) IN
     IF IsRowReturning(sql)
       THEN \E ok \in BOOLEAN, fetched \in CallerFetches :
              LET res == RunSelect(fetched) IN
              /\ log' = Append(log, Event("fetch", sql, <<>>, ok, <<>>,
                                          IF ok THEN Len(res.rows) ELSE 0))
              /\ IF ok
                   THEN /\ columns' = res.columns
                        /\ rows' = res.rows
                        /\ message' = <<"Query OK, ">> \o IntStr(Len(res.rows))
                                        \o <<" rows returned.">>
                        /\ UNCHANGED error
                   ELSE /\ error' = EngineError
                        /\ UNCHANGED <<columns, rows, message>>
       ELSE \E ok \in BOOLEAN, status \in EngineStatuses :
              /\ log' = Append(log, Event("execute", sql, <<>>, ok,
                                          IF ok THEN status ELSE <<>>, 0))
              /\ IF ok
                   THEN /\ message' = StatementMessage(status)
                        /\ UNCHANGED error
                   ELSE /\ error' = EngineError
                        /\ UNCHANGED message
              /\ UNCHANGED <<columns, rows>>
  /\ UNCHANGED <<db, req, connOpen, closeCount, tables, selected_table, deletable_table,
                 response, dbAtStart, rerun, probe>>

\* the else branch: only connect and load the tables
ConnectOnly ==
  /\ pc = "dispatch"
  /\ ~IsViewTable /\ ~IsDeleteRow /\ ~IsRunSql
  /\ message' = <<"Connected. Tables loaded.">>
  /\ pc' = "close"
  /\ UNCHANGED <<db, req, connOpen, closeCount, tables, selected_table, columns, rows,
                 error, deletable_table, log, response, dbAtStart, rerun, probe>>

\* conn.close() as the last statement of the try block instead of a finally:
\* a request that reported an error leaves without closing
CloseUnlessError ==
  /\ pc = "close"
  /\ connOpen' = (error # <<>>)
  /\ closeCount' = IF error # <<>> THEN closeCount ELSE closeCount + 1
  /\ log' = IF error # <<>> THEN log ELSE Append(log, Event("close", <<>>, <<>>, TRUE, <<>>, 0))
  /\ pc' = "render"
  /\ UNCHANGED <<db, req, tables, selected_table, columns, rows, message, error,
                 deletable_table, response, dbAtStart, rerun, probe>>

\* finally: await conn.close()
Close ==
  /\ pc = "close"
  /\ connOpen' = FALSE
  /\ closeCount' = closeCount + 1
  /\ log' = Append(log, Event("close", <<>>, <<>>, TRUE, <<>>, 0))
  /\ pc' = "render"
  /\ UNCHANGED <<db, req, tables, selected_table, columns, rows, message, error,
                 deletable_table, response, dbAtStart, rerun, probe>>

\* return _render_page(...)
Render ==
  /\ pc = "render"
  /\ response' = RenderPage(tables, columns, rows, message, error, deletable_table)
  /\ pc' = "done"
  /\ UNCHANGED <<db, req, connOpen, closeCount, tables, selected_table, columns, rows,
                 message, error, deletable_table, log, dbAtStart, rerun, probe>>

Next ==
  \/ \E r \in Requests : Submit(r)
  \/ Resubmit
  \/ Connect
  \/ GetTables
  \/ ViewTable
  \/ DeleteRow
  \/ Reload
  \/ RunSql
  \/ ConnectOnly
  \/ Close
  \/ Render

Spec == Init /\ [][Next]_vars

\* ================================================================ claims
\* what the claims speak of
Connected == log # <<>> /\ log[1].kind = "connect" /\ log[1].ok

CatalogFetched == Len(log) >= 2 /\ log[2].sql = CatalogSql /\ log[2].ok

IsStatement(e) == e.kind \in {"fetch", "execute"}

\* the statements of the main operation: every statement but the catalog query
MainEvents == SelectSeq(log, LAMBDA e : IsStatement(e) /\ e.sql # CatalogSql)

\* the pair the handler parsed out of the request, when it parsed one
HasParsedPair == IsViewTable \/ IsDeleteRow

ParsedPair ==
  IF IsViewTable THEN ParseTableName(req.table_name)
  ELSE ParseTableName(req.delete_table_name)

Whitelisted == \E i \in 1..Len(tables) : tables[i] = ParsedPair

\* the browse query of public.users, written out
BrowseUsersText ==
  <<"SELECT * FROM ", "\"","p","u","b","l","i","c","\"", ".",
    "\"","u","s","e","r","s","\"", " LIMIT ", "2","0","0", ";">>

\* C1: a browse or delete request whose parsed (schema, name) is not in the
\* catalog fetched in the same request ends with a "not found or not allowed"
\* error, and at no moment has it issued a statement other than the catalog query.
C1_NotWhitelistedIssuesNoSql ==
  (HasParsedPair /\ CatalogFetched /\ ~Whitelisted) =>
    /\ MainEvents = <<>>
    /\ db = dbAtStart
    /\ pc = "done" =>
         /\ error = <<"Table ">> \o ParsedPair[1] \o <<".">> \o ParsedPair[2]
                      \o <<IF IsViewTable THEN " not found or not allowed."
                           ELSE " not found or not allowed for delete.">>
         /\ response.error = error
         /\ response.rows = <<>>

C1_Witness ==
  /\ pc = "done"
  /\ IsDeleteRow
  /\ CatalogFetched
  /\ ParsedPair = <<Orders, Users>>
  /\ dbAtStart # <<>>
  /\ req.row_json.kind = "object" /\ req.row_json.obj # <<>>
  /\ error # <<>>
  /\ Len(log) = 3

\* C2: a request whose connect succeeded closes the connection exactly once,
\* before the response is returned, whatever failed in between; the connection
\* is never closed twice and no request ends with it open.
C2_ClosedExactlyOnce ==
  /\ closeCount <= 1
  /\ (pc \in {"render", "done"} /\ Connected) => (closeCount = 1 /\ ~connOpen)
  /\ (pc \in {"render", "done", "idle"}) => ~connOpen
  /\ closeCount = Cardinality({i \in 1..Len(log) : log[i].kind = "close"})

\* the connection closed after the DELETE succeeded and the reload SELECT failed
C2_Witness ==
  /\ pc = "done"
  /\ closeCount = 1
  /\ Len(log) = 5
  /\ IsDeleteEvent(log[3]) /\ log[3].ok
  /\ IsBrowseEvent(log[4]) /\ ~log[4].ok
  /\ error = EngineError

\* C3: within a request the calls on the driver are ordered connect, catalog
\* query, the statements of at most one main operation, close. A failed connect
\* is the only call of its request; the catalog query follows every successful
\* connect whatever the action; no main statement precedes the catalog result
\* and none follows the close.
C3_StrictOrder ==
  /\ \A i \in 1..Len(log) : (log[i].kind = "connect") <=> (i = 1)
  /\ (log # <<>> /\ ~log[1].ok) => Len(log) = 1
  /\ Len(log) >= 2 => log[2].sql = CatalogSql /\ log[2].kind = "fetch"
  /\ \A i \in 1..Len(log) : log[i].sql = CatalogSql => i = 2
  /\ \A i \in 1..Len(log) : (IsStatement(log[i]) /\ i # 2) => (i > 2 /\ log[2].ok)
  /\ \A i \in 1..Len(log) : log[i].kind = "close" => i = Len(log)
  /\ connOpen <=> (Connected /\ log[Len(log)].kind # "close")
  /\ (pc \in {"dispatch", "reload", "close", "render", "done"} /\ Connected) => Len(log) >= 2
  /\ (pc \in {"render", "done"} /\ Connected) => log[Len(log)].kind = "close"
  /\ CASE req.action = "view_table" ->
            Len(MainEvents) <= 1 /\ \A i \in 1..Len(MainEvents) : IsBrowseEvent(MainEvents[i])
       [] req.action = "run_sql" ->
            Len(MainEvents) <= 1 /\ \A i \in 1..Len(MainEvents) : MainEvents[i].sql = Strip(req.sql_text)
       [] req.action = "delete_row" ->
            \/ MainEvents = <<>>
            \/ Len(MainEvents) = 1 /\ (IsDeleteEvent(MainEvents[1]) \/ IsBrowseEvent(MainEvents[1]))
            \/ Len(MainEvents) = 2 /\ IsDeleteEvent(MainEvents[1]) /\ MainEvents[1].ok
                 /\ IsBrowseEvent(MainEvents[2])
       [] OTHER -> MainEvents = <<>>

C3_Witness ==
  /\ pc = "done"
  /\ Len(log) = 5
  /\ log[1].kind = "connect"
  /\ log[2].sql = CatalogSql
  /\ IsDeleteEvent(log[3])
  /\ IsBrowseEvent(log[4])
  /\ log[5].kind = "close"

DeleteEvents == {i \in 1..Len(log) : IsDeleteEvent(log[i])}

\* DELETE FROM "public"."users" WHERE TRUE RETURNING *, written out
DeleteWhereTrueText ==
  <<"DELETE FROM ", "\"","p","u","b","l","i","c","\"", ".",
    "\"","u","s","e","r","s","\"", " WHERE ", "TRUE", " RETURNING *">>

\* C4 as stated: a delete request whose row_json does not parse reports an error
\* and issues no statement after the catalog query.
C4_Original ==
  (pc = "done" /\ IsDeleteRow /\ req.row_json.kind = "malformed") =>
    /\ response.error # <<>>
    /\ MainEvents = <<>>

\* C4 as amended: a delete request whose row_json does not parse reports an
\* error and issues no DELETE; on a whitelisted table it still issues the reload
\* browse SELECT, the one statement after the catalog query, and on a table that
\* is not whitelisted it issues none.
C4_MalformedIssuesNoDelete ==
  (IsDeleteRow /\ req.row_json.kind = "malformed") =>
    /\ DeleteEvents = {}
    /\ db = dbAtStart
    /\ pc = "done" => response.error # <<>>
    /\ (CatalogFetched /\ ~Whitelisted) => MainEvents = <<>>
    /\ (pc = "done" /\ CatalogFetched /\ Whitelisted) =>
         /\ Len(MainEvents) = 1
         /\ MainEvents[1].sql = BrowseUsersText
         /\ MainEvents[1].ok =>
              /\ response.error = <<"Invalid row data: ">> \o JsonError
              /\ response.rows = dbAtStart

C4_Witness ==
  /\ pc = "done"
  /\ IsDeleteRow
  /\ req.row_json.kind = "malformed"
  /\ Len(MainEvents) = 1
  /\ IsBrowseEvent(MainEvents[1])
  /\ MainEvents[1].ok
  /\ response.error = <<"Invalid row data: ">> \o JsonError
  /\ response.rows # <<>>

\* C5 as stated: a delete request on a whitelisted table whose row_json is the
\* empty object issues DELETE ... WHERE TRUE RETURNING * and empties the table.
C5_Original ==
  (pc = "done" /\ IsDeleteRow /\ CatalogFetched /\ Whitelisted
     /\ req.row_json = ObjectRowJson(<<>>)) =>
    \E i \in 1..Len(log) :
      /\ log[i].sql = DeleteWhereTrueText
      /\ log[i].ok => db = <<>>

\* C5 as amended: a delete request on a whitelisted table whose row_json is the
\* empty object issues no DELETE and deletes no row; the handler only reloads the
\* table, and the response carries the unchanged rows, no error and no count.
C5_EmptySnapshotDeletesNothing ==
  (IsDeleteRow /\ req.row_json = ObjectRowJson(<<>>)) =>
    /\ DeleteEvents = {}
    /\ db = dbAtStart
    /\ (pc = "done" /\ CatalogFetched /\ Whitelisted) =>
         /\ Len(MainEvents) = 1
         /\ MainEvents[1].sql = BrowseUsersText
         /\ MainEvents[1].ok =>
              /\ response.error = <<>>
              /\ response.message = <<>>
              /\ response.rows = dbAtStart

C5_Witness ==
  /\ pc = "done"
  /\ IsDeleteRow
  /\ CatalogFetched
  /\ Whitelisted
  /\ req.row_json = ObjectRowJson(<<>>)
  /\ Len(dbAtStart) = MaxRows
  /\ db = dbAtStart
  /\ Len(MainEvents) = 1
  /\ MainEvents[1].ok
  /\ response.rows = dbAtStart

\* C6: a request issues at most one generated DELETE; it issues none unless its
\* action is delete_row, none when the whitelist check fails and none when
\* row_json fails to decode.
C6_AtMostOneDelete ==
  /\ Cardinality(DeleteEvents) <= 1
  /\ req.action \in {"connect", "view_table", "run_sql"} => DeleteEvents = {}
  /\ (HasParsedPair /\ CatalogFetched /\ ~Whitelisted) => DeleteEvents = {}
  /\ req.row_json.kind = "malformed" => DeleteEvents = {}
  /\ DeleteEvents # {} => (DeleteEvents = {3} /\ CatalogFetched)

C6_Witness ==
  /\ pc = "done"
  /\ req.action = "delete_row"
  /\ DeleteEvents = {3}
  /\ log[3].ok
  /\ log[3].nrows = 2

\* f"Deleted {n} row(s) from public.users", written out
DeletedUsersText(n) ==
  <<"Deleted ">> \o IntStr(n)
    \o <<" row(s) from ", "p","u","b","l","i","c",".","u","s","e","r","s">>

\* the table as a browse shows it: columns only when there is a row
ShownColumns(content) == IF content = <<>> THEN <<>> ELSE <<ColId, ColName>>

ClaimRowReturning(text) ==
  LET t == Strip(text) IN
  \/ Lower(FirstToken(t)) = <<"s","e","l","e","c","t">>
  \/ Len(t) >= 4 /\ Lower(SubSeq(t, 1, 4)) = <<"w","i","t","h">>

\* C8: once the catalog is fetched, a run_sql request issues exactly one fetch
\* and no execute when its text is row-returning by the rule above, exactly one
\* execute and no fetch for any other non-empty text, the engine's status
\* reaching the message unchanged, and no statement for a text that is empty or
\* whitespace.
C8_RouterClassification ==
  (req.action = "run_sql" /\ pc \in {"close", "render", "done"} /\ CatalogFetched) =>
    IF Strip(req.sql_text) = <<>>
      THEN MainEvents = <<>> /\ message = <<"Connected. Tables loaded.">>
      ELSE /\ Len(MainEvents) = 1
           /\ MainEvents[1].sql = Strip(req.sql_text)
           /\ MainEvents[1].args = <<>>
           /\ IF ClaimRowReturning(req.sql_text)
                THEN MainEvents[1].kind = "fetch"
                ELSE /\ MainEvents[1].kind = "execute"
                     /\ MainEvents[1].ok =>
                          /\ MainEvents[1].status \in EngineStatuses
                          /\ message = <<"Statement OK: ">> \o MainEvents[1].status
                          /\ pc = "done" => response.message = message

C8_Witness ==
  /\ pc = "done"
  /\ req.action = "run_sql"
  /\ req.sql_text = <<"w","i","t","h","d","r","a","w">>
  /\ Len(MainEvents) = 1
  /\ MainEvents[1].kind = "fetch"
  /\ MainEvents[1].ok

\* every captured column of the snapshot text-equals the row's cell
TextEqual(r, snap) ==
  \A k \in 1..Len(snap) :
    \E j \in 1..2 :
      /\ <<ColId, ColName>>[j] = snap[k][1]
      /\ ~r[j].isnull
      /\ r[j].text = snap[k][2]

WithoutMatches(content, snap) == SelectSeq(content, LAMBDA r : ~TextEqual(r, snap))

Contains(text, frag) ==
  \E p \in 1..(Len(text) - Len(frag) + 1) : SubSeq(text, p, p + Len(frag) - 1) = frag

\* C10: the snapshot rendered for a row carries "" for every column that is
\* NULL; a DELETE built from a snapshot with "" for column c compares c::text
\* with a bound '' and has no IS NULL test, leaves every row whose c is NULL in
\* the table, and removes every row whose c is '' and whose other captured
\* columns text-equal the snapshot.
C10_NullSnapshot ==
  /\ pc = "done" =>
       \A i \in 1..Len(response.snapshots) : \A j \in 1..Len(response.columns) :
         response.rows[i][j].isnull =>
           \E k \in 1..Len(response.snapshots[i]) :
             response.snapshots[i][k] = <<response.columns[j], "">>
  /\ \A c \in 1..2 : \A k \in 1..Len(req.row_json.obj) :
       (DeleteEvents # {} /\ log[3].ok /\ req.row_json.obj[k] = <<(<<ColId, ColName>>)[c], "">>) =>
         /\ Contains(log[3].sql,
                     <<"\"">> \o (<<ColId, ColName>>)[c] \o <<"\"", "::text = $">> \o IntStr(k))
         /\ log[3].args[k] = ""
         /\ \A x \in 1..Len(log[3].sql) : log[3].sql[x] # " IS NULL"
         /\ SelectSeq(db, LAMBDA r : r[c].isnull) = SelectSeq(dbAtStart, LAMBDA r : r[c].isnull)
         /\ \A x \in 1..Len(db) : ~TextEqual(db[x], req.row_json.obj)
         /\ \A x \in 1..Len(dbAtStart) :
              (dbAtStart[x][c] = Txt("") /\ TextEqual(dbAtStart[x], req.row_json.obj)) =>
                \A y \in 1..Len(db) : db[y] # dbAtStart[x]

\* the delete built from the snapshot of a row whose id is NULL left that row
\* and removed the one row whose id is ''
C10_Witness ==
  /\ pc = "done"
  /\ DeleteEvents = {3}
  /\ log[3].ok
  /\ log[3].nrows = 1
  /\ \E i \in 1..Len(dbAtStart) :
       /\ dbAtStart[i][1].isnull
       /\ RowDict(TableCols, dbAtStart[i]) = req.row_json.obj
       /\ db = <<dbAtStart[i]>>

\* ===================================================== the functions of names
\* The handler's treatment of a schema, table and column name, applied to names
\* drawn over a letter, the dot and the double quote: the quoting into SQL, and
\* the way from the catalog through the page's table option back to the handler.

handlerVars ==
  <<db, pc, req, connOpen, closeCount, tables, selected_table, columns, rows,
    message, error, deletable_table, log, response, dbAtStart, rerun>>

\* the handler at rest, before any request
HandlerIdle ==
  /\ db = <<>>
  /\ pc = "idle"
  /\ req = NoRequest
  /\ connOpen = FALSE
  /\ closeCount = 0
  /\ tables = <<>>
  /\ selected_table = <<>>
  /\ columns = <<>>
  /\ rows = <<>>
  /\ message = <<>>
  /\ error = <<>>
  /\ deletable_table = <<>>
  /\ log = <<>>
  /\ response = NoResponse
  /\ dbAtStart = <<>>
  /\ rerun = FALSE

NameChars == {"a", ".", "\""}

\* the non-empty names of at most MaxNameLen characters
Names == UNION {[1..k -> NameChars] : k \in 1..MaxNameLen}

\* a table (schema, name) of the catalog and one of its columns
NamesInit ==
  /\ HandlerIdle
  /\ \E s \in Names, n \in Names, c \in Names :
       probe = [stage |-> "catalog", schema |-> s, name |-> n, col |-> c]

\* the SQL the handler generates for the table and a snapshot of the column
NamesQuote ==
  /\ probe.stage = "catalog"
  /\ probe' = [ stage  |-> "quoted",
                schema |-> probe.schema,
                name   |-> probe.name,
                col    |-> probe.col,
                ident  |-> QualifiedIdent(probe.schema, probe.name),
                browse |-> BrowseSql(probe.schema, probe.name),
                delete |-> DeleteSql(probe.schema, probe.name, << <<probe.col, "a">> >>) ]
  /\ UNCHANGED handlerVars

\* html.escape(s, quote=True) on one character
HtmlEscapeChar(c) ==
  CASE c = "&"  -> <<"&","a","m","p",";">>
    [] c = "<"  -> <<"&","l","t",";">>
    [] c = ">"  -> <<"&","g","t",";">>
    [] c = "\"" -> <<"&","q","u","o","t",";">>
    [] c = "'"  -> <<"&","#","x","2","7",";">>
    [] OTHER    -> <<c>>

\* esc = html.escape
RECURSIVE HtmlEscape(_)
HtmlEscape(s) ==
  IF s = <<>> THEN <<>> ELSE HtmlEscapeChar(Head(s)) \o HtmlEscape(Tail(s))

HtmlEntities == {"&", "<", ">", "\"", "'"}

\* the browser reading the value attribute of the option it posts back: each
\* character reference stands for its character
RECURSIVE HtmlUnescape(_)
HtmlUnescape(s) ==
  IF s = <<>> THEN <<>>
  ELSE IF \E c \in HtmlEntities : StartsWith(s, HtmlEscapeChar(c)) /\ Len(HtmlEscapeChar(c)) > 1
    THEN LET c == CHOOSE x \in HtmlEntities :
                    StartsWith(s, HtmlEscapeChar(x)) /\ Len(HtmlEscapeChar(x)) > 1
         IN <<c>> \o HtmlUnescape(SubSeq(s, Len(HtmlEscapeChar(c)) + 1, Len(s)))
  ELSE <<Head(s)>> \o HtmlUnescape(Tail(s))

\* <option value="{esc(schema + "." + name)}"> for the table of the catalog
NamesRender ==
  /\ probe.stage = "catalog"
  /\ probe' = [ stage  |-> "rendered",
                schema |-> probe.schema,
                name   |-> probe.name,
                col    |-> probe.col,
                option |-> HtmlEscape(probe.schema \o <<".">> \o probe.name) ]
  /\ UNCHANGED handlerVars

\* the option posted back as table_name: the handler parses it and checks the
\* pair against the catalog; a browse that passes renders deletable_table from
\* the parsed pair, and the delete request parses that again
NamesPost ==
  /\ probe.stage = "rendered"
  /\ LET table_name == HtmlUnescape(probe.option)
         pair == ParseTableName(table_name)
         deletable == HtmlEscape(pair[1] \o <<".">> \o pair[2])
         delete_pair == ParseTableName(HtmlUnescape(deletable))
         catalog == << <<probe.schema, probe.name>> >>
     IN probe' = [ stage  |-> "parsed",
                   schema |-> probe.schema,
                   name   |-> probe.name,
                   col    |-> probe.col,
                   table_name  |-> table_name,
                   pair        |-> pair,
                   allowed     |-> InTables(pair, catalog),
                   delete_pair |-> delete_pair,
                   delete_allowed |-> InTables(delete_pair, catalog) ]
  /\ UNCHANGED handlerVars

NamesNext ==
  \/ NamesQuote
  \/ NamesRender
  \/ NamesPost

SpecNames == NamesInit /\ [][NamesNext]_vars

\* the name with every double quote doubled, built from its last character
RECURSIVE ClaimDoubled(_)
ClaimDoubled(n) ==
  IF n = <<>> THEN <<>>
  ELSE LET c == n[Len(n)] IN
       ClaimDoubled(SubSeq(n, 1, Len(n) - 1)) \o (IF c = "\"" THEN <<c, c>> ELSE <<c>>)

\* the fragment the claim asks for: the doubled name between double quotes
ClaimFragment(n) == <<"\"">> \o ClaimDoubled(n) \o <<"\"">>

\* where the quoted identifier that starts text ends: at the first double
\* quote, from position i on, that is not the first of a pair (0 when none)
RECURSIVE ClaimQuotedEnd(_, _)
ClaimQuotedEnd(text, i) ==
  IF i > Len(text) THEN 0
  ELSE IF text[i] # "\"" THEN ClaimQuotedEnd(text, i + 1)
  ELSE IF i < Len(text) /\ text[i + 1] = "\"" THEN ClaimQuotedEnd(text, i + 2)
  ELSE i

\* the inside of a quoted identifier with every pair of quotes read as one
RECURSIVE ClaimUndouble(_, _)
ClaimUndouble(inner, i) ==
  IF i > Len(inner) THEN <<>>
  ELSE IF inner[i] = "\"" THEN <<"\"">> \o ClaimUndouble(inner, i + 2)
  ELSE <<inner[i]>> \o ClaimUndouble(inner, i + 1)

\* the quoted identifier at the start of text, read by the convention: the
\* name it stands for and what follows it
ClaimRead(text) ==
  LET e == ClaimQuotedEnd(text, 2) IN
  [ found |-> text # <<>> /\ text[1] = "\"" /\ e > 0,
    name  |-> IF e > 0 THEN ClaimUndouble(SubSeq(text, 2, e - 1), 1) ELSE <<>>,
    rest  |-> IF e > 0 THEN SubSeq(text, e + 1, Len(text)) ELSE <<>> ]

\* C11: for every schema, table and column name, those with double quotes
\* included, the fragment in the generated SQL is the name with every double
\* quote doubled, between double quotes; read back by the same convention it
\* is the name; and the browse and DELETE statements are their fixed text around
\* such fragments, so that reading the identifiers where the statement expects
\* them yields the schema, the table and the column and nothing else.
C11_QuotedIdentifiers ==
  probe.stage = "quoted" =>
    LET fs == ClaimFragment(probe.schema)
        fn == ClaimFragment(probe.name)
        fc == ClaimFragment(probe.col)
        r1 == ClaimRead(Tail(probe.browse))
        r2 == ClaimRead(Tail(r1.rest))
        d1 == ClaimRead(Tail(probe.delete))
        d2 == ClaimRead(Tail(d1.rest))
        d3 == ClaimRead(Tail(d2.rest))
    IN /\ probe.ident = fs \o <<".">> \o fn
       /\ ClaimRead(fs) = [found |-> TRUE, name |-> probe.schema, rest |-> <<>>]
       /\ ClaimRead(fn) = [found |-> TRUE, name |-> probe.name, rest |-> <<>>]
       /\ ClaimRead(fc) = [found |-> TRUE, name |-> probe.col, rest |-> <<>>]
       /\ probe.browse = <<"SELECT * FROM ">> \o fs \o <<".">> \o fn
                           \o <<" LIMIT ", "2", "0", "0", ";">>
       /\ probe.delete = <<"DELETE FROM ">> \o fs \o <<".">> \o fn \o <<" WHERE ">>
                           \o fc \o <<"::text = $", "1", " RETURNING *">>
       /\ r1.found /\ r1.name = probe.schema /\ Head(r1.rest) = "."
       /\ r2.found /\ r2.name = probe.name
       /\ r2.rest = <<" LIMIT ", "2", "0", "0", ";">>
       /\ d1.found /\ d1.name = probe.schema /\ Head(d1.rest) = "."
       /\ d2.found /\ d2.name = probe.name /\ Head(d2.rest) = " WHERE "
       /\ d3.found /\ d3.name = probe.col
       /\ d3.rest = <<"::text = $", "1", " RETURNING *">>

\* the statements generated for names made of and holding double quotes
C11_Witness ==
  /\ probe.stage = "quoted"
  /\ probe.schema = <<"a", "\"">>
  /\ probe.name = <<"\"", ".">>
  /\ probe.col = <<"\"", "\"">>
  /\ probe.browse = <<"SELECT * FROM ", "\"", "a", "\"", "\"", "\"", ".",
                      "\"", "\"", "\"", ".", "\"", " LIMIT ", "2", "0", "0", ";">>

\* ======================================================== the SSL decision
\* _connect applied to connection URLs written from a list of query parameters
\* and to the sslmode field of the form.

\* position of the first c of s at or after i, 0 when there is none
RECURSIVE IndexOf(_, _, _)
IndexOf(s, c, i) ==
  IF i > Len(s) THEN 0
  ELSE IF s[i] = c THEN i
  ELSE IndexOf(s, c, i + 1)

\* urlparse(db_url).query: what follows the first "?" of the part of the URL
\* that precedes the first "#"
UrlQuery(db_url) ==
  LET h == IndexOf(db_url, "#", 1)
      u == IF h > 0 THEN SubSeq(db_url, 1, h - 1) ELSE db_url
      q == IndexOf(u, "?", 1)
  IN IF q > 0 THEN SubSeq(u, q + 1, Len(u)) ELSE <<>>

\* query.split("&")
RECURSIVE SplitAmp(_)
SplitAmp(query) ==
  LET a == IndexOf(query, "&", 1) IN
  IF a = 0 THEN <<query>>
  ELSE <<SubSeq(query, 1, a - 1)>> \o SplitAmp(SubSeq(query, a + 1, Len(query)))

\* s.replace("+", " "), the decoding parse_qs applies to names and values (the
\* URLs drawn hold no percent escape)
PlusToSpace(s) == [i \in 1..Len(s) |-> IF s[i] = "+" THEN " " ELSE s[i]]

\* parse_qs(query), as the (name, value) pairs in order: a pair without "=" and
\* a pair with a blank value are dropped
RECURSIVE QsPairs(_)
QsPairs(parts) ==
  IF parts = <<>> THEN <<>>
  ELSE LET e == IndexOf(Head(parts), "=", 1)
           name == SubSeq(Head(parts), 1, e - 1)
           value == SubSeq(Head(parts), e + 1, Len(Head(parts)))
       IN (IF e > 0 /\ value # <<>>
             THEN << <<PlusToSpace(name), PlusToSpace(value)>> >>
             ELSE <<>>)
          \o QsPairs(Tail(parts))

ParseQs(query) == QsPairs(SplitAmp(query))

\* qs.get(key, [""])[0]: the first value given for key
QsGetFirst(qs, key) ==
  IF \E i \in 1..Len(qs) : qs[i][1] = key
    THEN qs[CHOOSE i \in 1..Len(qs) :
              qs[i][1] = key /\ \A j \in 1..(i - 1) : qs[j][1] # key][2]
    ELSE <<>>

SslmodeKey == <<"s","s","l","m","o","d","e">>

Require == <<"r","e","q","u","i","r","e">>

VerifyFull == <<"v","e","r","i","f","y","-","f","u","l","l">>

VerifyCa == <<"v","e","r","i","f","y","-","c","a">>

Disable == <<"d","i","s","a","b","l","e">>

\* the URL's sslmode taking precedence over the form's
SslModeUrlFirst(db_url, sslmode) ==
  LET sslmode_form == Strip(sslmode)
      sslmode_qs == Strip(QsGetFirst(ParseQs(UrlQuery(db_url)), SslmodeKey))
  IN IF sslmode_qs # <<>> THEN sslmode_qs
     ELSE IF sslmode_form # <<>> THEN sslmode_form
     ELSE Disable

\* sslmode_effective = sslmode_form or sslmode_qs or "disable"
SslModeEffective(db_url, sslmode) ==
  LET sslmode_form == Strip(sslmode)
      sslmode_qs == Strip(QsGetFirst(ParseQs(UrlQuery(db_url)), SslmodeKey))
  IN IF sslmode_form # <<>> THEN sslmode_form
     ELSE IF sslmode_qs # <<>> THEN sslmode_qs
     ELSE Disable

\* ssl_required = sslmode_effective.lower() in {"require", "verify-full", "verify-ca"}
SslRequired(effective) == Lower(effective) \in {Require, VerifyFull, VerifyCa}

\* dsn = db_url.split("?", 1)[0]
Dsn(db_url) ==
  LET q == IndexOf(db_url, "?", 1) IN
  IF q > 0 THEN SubSeq(db_url, 1, q - 1) ELSE db_url

\* a query parameter of a drawn URL: its name, whether it is written with "=",
\* and its value
ParamKeys == {SslmodeKey, <<"S","S","L","M","O","D","E">>, <<"x">>}

ParamValues ==
  { <<>>, <<" ">>, Require, Disable,
    <<"V","e","r","i","f","y","-","F","u","l","l">>,
    <<" ">> \o VerifyCa \o <<" ">> }

Params ==
  [key : ParamKeys, eq : {TRUE}, value : ParamValues]
    \cup {[key |-> SslmodeKey, eq |-> FALSE, value |-> <<>>]}

\* the text after "#" of a drawn URL
Fragments == { <<>>, <<"#", "?">> \o SslmodeKey \o <<"=">> \o Require }

\* a value as it is written in a query string: a space is written "+"
SpaceToPlus(s) == [i \in 1..Len(s) |-> IF s[i] = " " THEN "+" ELSE s[i]]

ParamText(p) ==
  SpaceToPlus(p.key) \o (IF p.eq THEN <<"=">> \o SpaceToPlus(p.value) ELSE <<>>)

RECURSIVE JoinAmp(_)
JoinAmp(ps) ==
  IF ps = <<>> THEN <<>>
  ELSE IF Len(ps) = 1 THEN ParamText(ps[1])
  ELSE ParamText(ps[1]) \o <<"&">> \o JoinAmp(Tail(ps))

\* the connection URL that carries the parameters ps and the fragment frag
UrlText(ps, frag) ==
  <<"postgres://u:p@h/db">>
    \o (IF ps = <<>> THEN <<>> ELSE <<"?">> \o JoinAmp(ps))
    \o frag

\* the sslmode field of a posted form: absent, or present with a text
SslFields ==
  {[present |-> FALSE, text |-> <<>>]}
    \cup [present : {TRUE},
          text : { <<>>, <<" ">>, Disable, Require, VerifyCa,
                   <<" ","D","i","s","a","b","l","e","\t">>,
                   <<"R","E","Q","U","I","R","E"," ">>,
                   <<"p","r","e","f","e","r">> }]

SslInit ==
  /\ HandlerIdle
  /\ \E ps \in UNION {[1..k -> Params] : k \in 0..MaxParams} :
     \E frag \in Fragments :
     \E f \in SslFields :
       probe = [stage |-> "form", params |-> ps, db_url |-> UrlText(ps, frag),
                field |-> f]

\* post_handler's sslmode parameter: the posted field, "require" when the form
\* carries none
SslPost ==
  /\ probe.stage = "form"
  /\ probe' = [stage |-> "posted", params |-> probe.params,
               db_url |-> probe.db_url, field |-> probe.field,
               sslmode |-> IF probe.field.present THEN probe.field.text
                           ELSE Require]
  /\ UNCHANGED handlerVars

\* _connect(db_url, sslmode=sslmode), up to the call of asyncpg.connect
SslConnect ==
  /\ probe.stage = "posted"
  /\ probe' = [stage |-> "connected", params |-> probe.params,
               db_url |-> probe.db_url, field |-> probe.field,
               sslmode |-> probe.sslmode,
               sslmode_effective |-> SslModeEffective(probe.db_url, probe.sslmode),
               ssl_required |->
                 SslRequired(SslModeEffective(probe.db_url, probe.sslmode)),
               dsn |-> Dsn(probe.db_url)]
  /\ UNCHANGED handlerVars

SslNext == SslPost \/ SslConnect

SpecSsl == SslInit /\ [][SslNext]_vars

\* the value of the URL's sslmode query parameter, read off the parameters the
\* URL was written from: the first one named sslmode that has a value
ClaimUrlSslmode(ps) ==
  LET given == {i \in 1..Len(ps) :
                  ps[i].key = SslmodeKey /\ ps[i].eq /\ ps[i].value # <<>>}
  IN IF given = {} THEN <<>>
     ELSE ps[CHOOSE i \in given : \A j \in given : i <= j].value

ClaimEffective(ps, form) ==
  IF Strip(form) # <<>> THEN Strip(form)
  ELSE IF Strip(ClaimUrlSslmode(ps)) # <<>> THEN Strip(ClaimUrlSslmode(ps))
  ELSE Disable

\* C12: for every connection URL and every form sslmode value handed to
\* _connect, the effective mode is the trimmed form value if it is non-empty,
\* else the trimmed sslmode query parameter of the URL if it is non-empty, else
\* "disable"; SSL is required exactly when the lower-cased effective mode is
\* require, verify-full or verify-ca.  A URL whose sslmode parameter is require
\* requires SSL when the form gives no value (an absent or a blank field), and
\* a form value of "disable" never requires SSL whatever the URL says.
C12_SslDecision ==
  probe.stage = "connected" =>
    /\ probe.sslmode_effective = ClaimEffective(probe.params, probe.sslmode)
    /\ probe.ssl_required
         = (Lower(ClaimEffective(probe.params, probe.sslmode))
              \in {Require, VerifyFull, VerifyCa})
    /\ (/\ ClaimUrlSslmode(probe.params) = Require
        /\ (~probe.field.present \/ Strip(probe.field.text) = <<>>))
         => probe.ssl_required
    /\ (probe.field.present /\ Strip(probe.field.text) = Disable)
         => ~probe.ssl_required

\* a blank form field, a URL that names sslmode twice (a blank value, then
\* Verify-Full) and SSL required by the URL's value
C12_Witness ==
  /\ probe.stage = "connected"
  /\ probe.field = [present |-> TRUE, text |-> <<" ">>]
  /\ Len(probe.params) = 2
  /\ probe.params[1] = [key |-> SslmodeKey, eq |-> TRUE, value |-> <<>>]
  /\ probe.params[2].key = SslmodeKey
  /\ Lower(probe.params[2].value) = VerifyFull
  /\ probe.ssl_required

\* C13: every (schema, name) pair of the catalog can be browsed and deleted
\* from through the table name the page renders for it: schema + "." + name,
\* posted back and split on its first ".", gives the same pair again and passes
\* the whitelist check, on the browse and on the delete that follows it,
\* whatever characters the names hold.
C13_Original ==
  probe.stage = "parsed" =>
    /\ probe.pair = <<probe.schema, probe.name>>
    /\ probe.allowed
    /\ probe.delete_pair = <<probe.schema, probe.name>>
    /\ probe.delete_allowed

\* C14: a delete request that ends with a reported error has removed no row:
\* whenever the response of a delete request carries a non-empty error, the
\* table content after the request equals its content when the request
\* arrived, also when the DELETE succeeded and the reload SELECT after it failed.
C14_Original ==
  (pc = "done" /\ IsDeleteRow /\ response.error # <<>>) => db = dbAtStart

====
